---- MODULE Spec2Model ----
(***************************************************************************)
(* Model of the request router of the persona chat server                  *)
(* (src/server/routes.ts, registerRoutes) over its storage collaborator    *)
(* and the response generator.                                             *)
(*                                                                         *)
(* Every handler is an async function: it runs from one `await` to the     *)
(* next without interruption, and at each `await` other handlers may run.  *)
(* One action of the model is one such stretch: the awaited storage (or    *)
(* generator) call together with the handler's code up to the point where  *)
(* the next call is issued or the response is sent.                        *)
(*                                                                         *)
(* JavaScript values are records tagged with their type (k); strings are   *)
(* sequences of pieces (one-character strings, or an opaque word).         *)
(***************************************************************************)
EXTENDS Integers, Sequences, FiniteSets, TLC

(***************************************************************************)
(* Bounds of the model.                                                    *)
(***************************************************************************)
\* messages the log may hold: a handler that appends is started only while
\* the log has room for what it and the handlers in flight may append
MaxMsgs == 3

\* messages the log may hold where two send-message handlers run at a time
MaxMsgsSends == 4

(***************************************************************************)
(* JavaScript values.                                                      *)
(***************************************************************************)
Undefined == [k |-> "undefined"]
NaN == [k |-> "NaN"]
Num(n) == [k |-> "number", n |-> n]
Str(s) == [k |-> "string", s |-> s]

\* typeof v === "string"
IsString(v) == v.k = "string"

\* the truthiness of a value: undefined, NaN, 0 and "" are falsy
Truthy(v) ==
  CASE v.k = "undefined" -> FALSE
    [] v.k = "NaN" -> FALSE
    [] v.k = "number" -> v.n # 0
    [] v.k = "string" -> v.s # <<>>
    [] OTHER -> TRUE

Digits == <<"0", "1", "2", "3", "4", "5", "6", "7", "8", "9">>

IsDigit(c) == \E i \in 1..Len(Digits) : Digits[i] = c

DigitValue(c) == (CHOOSE i \in 1..Len(Digits) : Digits[i] = c) - 1

IsSpace(c) == c = " "

\* String.prototype.trim: the string without its leading and trailing white space
RECURSIVE TrimLeft(_)
TrimLeft(s) ==
  IF s # <<>> /\ IsSpace(Head(s)) THEN TrimLeft(Tail(s)) ELSE s

RECURSIVE TrimRight(_)
TrimRight(s) ==
  IF s # <<>> /\ IsSpace(s[Len(s)]) THEN TrimRight(SubSeq(s, 1, Len(s) - 1)) ELSE s

Trim(s) == TrimRight(TrimLeft(s))

\* the value of the longest prefix of digits of s, read after acc
RECURSIVE DigitPrefix(_, _)
DigitPrefix(s, acc) ==
  IF s # <<>> /\ IsDigit(Head(s))
    THEN DigitPrefix(Tail(s), acc * 10 + DigitValue(Head(s)))
    ELSE acc

\* parseInt of a string: leading white space skipped, then the leading digits;
\* NaN when there is none
ParseIntStr(s) ==
  LET t == TrimLeft(s) IN
  IF t # <<>> /\ IsDigit(Head(t)) THEN Num(DigitPrefix(t, 0)) ELSE NaN

\* Number.prototype.toString of a natural number
RECURSIVE NatToString(_)
NatToString(n) ==
  IF n < 10 THEN <<Digits[n + 1]>>
  ELSE NatToString(n \div 10) \o <<Digits[(n % 10) + 1]>>

\* v.toString() of a string or a number
toString(v) == IF IsString(v) THEN v.s ELSE NatToString(v.n)

\* parseInt(v.toString())
ParseInt(v) == ParseIntStr(toString(v))

\* a !== b on numbers, undefined and NaN (NaN differs from everything)
StrictNotEqual(a, b) == a.k = "NaN" \/ b.k = "NaN" \/ a # b

(***************************************************************************)
(* The inputs requests are drawn from.                                     *)
(***************************************************************************)
\* session identifiers are opaque tokens; "" stands for a missing or empty one
SessionIds == {"s1", "s2"}

NoSessionId == ""

\* the seeded persona catalog: id -> name
PersonaNames == [i \in {1, 2} |-> IF i = 1 THEN <<"Einstein">> ELSE <<"Cleopatra">>]

PersonaIds == DOMAIN PersonaNames

\* personaId as a request body may carry it: missing, numbers (catalog ids, an
\* id of no persona), a numeric and a non-numeric string
RawPersonaIds ==
  {Undefined, Num(1), Num(2), Num(3), Str(<<"2">>), Str(<<"x">>)}

\* content as a request body may carry it: missing, a number, empty,
\* white space only, text
RawContents ==
  {Undefined, Num(5), Str(<<>>), Str(<<" ", " ">>), Str(<<"h", "i">>)}

\* the seeded persona catalog: id -> category, id -> description
PersonaCategories == [i \in PersonaIds |-> IF i = 1 THEN "Science" ELSE "Leaders"]

PersonaDescriptions ==
  [i \in PersonaIds |-> IF i = 1 THEN <<"physicist">> ELSE <<"queen", "of", "Egypt">>]

\* :category of a request: categories of the catalog, and one of no persona
RawCategories == {"Science", "Leaders", "Arts"}

\* the query q of a search: missing, empty, words of a name or a description
\* in another case, a word of no persona
RawQueries ==
  {Undefined, Str(<<>>), Str(<<"EINSTEIN">>), Str(<<"Of", "egypt">>), Str(<<"zzz">>)}

\* :id of a request, a string
RawIds == {<<"1">>, <<"3">>, <<"x">>}

\* what the generator may answer
GeneratorTexts == {<<"reply">>}

(***************************************************************************)
(* State.                                                                  *)
(***************************************************************************)
VARIABLES
  \* storage: sessionId -> session, for the sessions created so far
  chatSessions,
  \* storage: the messages created so far, in creation order
  messages,
  \* per request slot: the await its handler stands at ("idle": the slot
  \* holds no request)
  pc,
  \* per request slot: the route and the :sessionId of the request
  req,
  \* per request slot: the handler's local variables
  loc,
  \* the response the last step sent, with the request it answers (route,
  \* :sessionId, the personaId or content of the body) and the history of its
  \* handler (the ids of the messages it created, whether it called the
  \* generator); NoOutput when the last step sent none
  sent,
  \* history: per session, the ids of the messages createMessage was called
  \* for, in call order
  appended

vars == <<chatSessions, messages, pc, req, loc, sent, appended>>

\* the request slots: two handlers may be in flight at once
Reqs == {1, 2}

Session(sessionId, currentPersonaId) ==
  [k |-> "object", sessionId |-> sessionId, currentPersonaId |-> currentPersonaId]

Persona(id) == [k |-> "object", id |-> id, name |-> PersonaNames[id]]

Response(status, body) == [status |-> status, body |-> body]

ErrorBody(message) == [message |-> message]

(***************************************************************************)
(* The storage collaborator (./storage, an in-memory store).               *)
(***************************************************************************)
\* storage.getPersonaById(id)
getPersonaById(id) ==
  IF id.k = "number" /\ id.n \in PersonaIds THEN Persona(id.n) ELSE Undefined

\* storage.getPersonas(): the catalog, by id
getPersonas == [i \in 1..Cardinality(PersonaIds) |-> Persona(i)]

\* storage.getPersonasByCategory(category)
getPersonasByCategory(category) ==
  SelectSeq(getPersonas, LAMBDA persona : PersonaCategories[persona.id] = category)

\* String.prototype.toLowerCase, piece by piece
toLowerCase(s) ==
  [i \in 1..Len(s) |->
     CASE s[i] \in {"Einstein", "EINSTEIN"} -> "einstein"
       [] s[i] = "Cleopatra" -> "cleopatra"
       [] s[i] = "Of" -> "of"
       [] s[i] = "Egypt" -> "egypt"
       [] OTHER -> s[i]]

\* String.prototype.includes: q is a run of the pieces of s
includes(s, q) ==
  \E i \in 1..(Len(s) + 1) :
    i + Len(q) - 1 <= Len(s) /\ SubSeq(s, i, i + Len(q) - 1) = q

\* storage.searchPersonas(query): the personas whose name or description
\* holds the query, whatever the case
searchPersonas(query) ==
  SelectSeq(getPersonas,
            LAMBDA persona :
              \/ includes(toLowerCase(persona.name), toLowerCase(query))
              \/ includes(toLowerCase(PersonaDescriptions[persona.id]), toLowerCase(query)))

\* storage.getChatSessionById(sessionId)
getChatSessionById(sessions, sessionId) ==
  IF sessionId \in DOMAIN sessions THEN sessions[sessionId] ELSE Undefined

\* an error thrown by a storage call
StorageError(name) == [name |-> name, message |-> <<name>>]

\* the store replacing a session that exists under the id
createChatSession_replacing(sessions, data) ==
  [s \in DOMAIN sessions \cup {data.sessionId} |->
     IF s = data.sessionId
       THEN Session(data.sessionId, data.currentPersonaId)
       ELSE sessions[s]]

\* storage.createChatSession(data): the store with the session under its id;
\* a session that exists under the id is kept as it is (upsert by identifier)
createChatSession(sessions, data) ==
  [s \in DOMAIN sessions \cup {data.sessionId} |->
     IF s \in DOMAIN sessions
       THEN sessions[s]
       ELSE Session(data.sessionId, data.currentPersonaId)]

\* storage.updateChatSessionPersona(sessionId, personaId) fails when the
\* session or the persona does not exist
updateChatSessionPersonaFails(sessions, sessionId, personaId) ==
  \/ sessionId \notin DOMAIN sessions
  \/ ~Truthy(getPersonaById(personaId))

\* storage.updateChatSessionPersona(sessionId, personaId): the store with the
\* session's persona set
updateChatSessionPersona(sessions, sessionId, personaId) ==
  IF updateChatSessionPersonaFails(sessions, sessionId, personaId)
    THEN sessions
    ELSE [sessions EXCEPT ![sessionId].currentPersonaId = personaId]

\* the message storage.createMessage(data) returns: data with the next id
newMessage(msgs, data) ==
  [id |-> Len(msgs) + 1, sessionId |-> data.sessionId, role |-> data.role,
   content |-> data.content, personaId |-> data.personaId]

\* storage.createMessage(data): the log with the message added
createMessage(msgs, data) == Append(msgs, newMessage(msgs, data))

\* storage.getMessagesBySessionId(sessionId)
getMessagesBySessionId(msgs, sessionId) ==
  SelectSeq(msgs, LAMBDA m : m.sessionId = sessionId)

(***************************************************************************)
(* The response generator (./lib/openai).                                  *)
(***************************************************************************)
OpenAIError == [name |-> "Error", message |-> "Failed to generate response from OpenAI API"]

\* generatePersonaResponse(persona, history, content): an answer, or the error
GeneratorOutcomes ==
  {[ok |-> TRUE, content |-> t] : t \in GeneratorTexts}
    \cup {[ok |-> FALSE, error |-> OpenAIError]}

(***************************************************************************)
(* Bookkeeping of the request slots.                                       *)
(***************************************************************************)
NoRequest == [op |-> "none", sessionId |-> NoSessionId]

Request(op, sessionId) == [op |-> op, sessionId |-> sessionId]

\* a new request is taken by the first slot that holds none
Free(r) ==
  /\ pc[r] = "idle"
  /\ \A q \in Reqs : q < r => pc[q] # "idle"

\* createMessage calls the handler in slot r may still make
PendingAppends(r) ==
  CASE pc[r] \in {"send_getPersona", "send_createUser"} -> 2
    [] pc[r] \in {"send_getMessages", "send_generate", "send_createAssistant"} -> 1
    [] pc[r] \in {"persona_getSession", "persona_update", "persona_createMessage"} -> 1
    [] OTHER -> 0

RECURSIVE SumPending(_)
SumPending(S) ==
  IF S = {} THEN 0
  ELSE LET r == CHOOSE x \in S : TRUE IN PendingAppends(r) + SumPending(S \ {r})

\* a handler that may append n messages is started only while a log of at
\* most M messages has room for them and for those of the handlers in flight
Room(M, n) == Len(messages) + SumPending(Reqs) + n <= M

\* the locals of a handler that has done nothing yet: besides the handler's
\* variables they hold its history (created, generated) and its body input
NoLocals == [created |-> <<>>, generated |-> "no", input |-> Undefined]

Locals(input) == [created |-> <<>>, generated |-> "no", input |-> input]

NoOutput == [op |-> "none"]

\* the handler of slot r sends its response and ends
Respond(r, request, response, locals) ==
  /\ pc' = [pc EXCEPT ![r] = "idle"]
  /\ req' = [req EXCEPT ![r] = NoRequest]
  /\ loc' = [loc EXCEPT ![r] = NoLocals]
  /\ sent' = [op |-> request.op, sessionId |-> request.sessionId,
              status |-> response.status, body |-> response.body,
              input |-> locals.input,
              created |-> locals.created, generated |-> locals.generated]

\* the handler of slot r goes on to its next await
Goto(r, request, label, locals) ==
  /\ pc' = [pc EXCEPT ![r] = label]
  /\ req' = [req EXCEPT ![r] = request]
  /\ loc' = [loc EXCEPT ![r] = locals]
  /\ sent' = NoOutput

\* the history of createMessage calls, after one for message m
Recorded(m) == [appended EXCEPT ![m.sessionId] = @ \o <<m.id>>]

\* the record rec with field f set to v
With(rec, f, v) == [x \in DOMAIN rec \cup {f} |-> IF x = f THEN v ELSE rec[x]]

(***************************************************************************)
(* GET /api/personas...: the reads of the persona catalog.                 *)
(***************************************************************************)
\* GET /api/personas: await storage.getPersonas(); res.json(personas)
GetPersonas(r) ==
  /\ Free(r)
  /\ Respond(r, Request("GET personas", NoSessionId),
             Response(200, [personas |-> getPersonas]), NoLocals)
  /\ UNCHANGED <<chatSessions, messages, appended>>

\* GET /api/personas/category/:category
GetPersonasByCategory(r, category) ==
  /\ Free(r)
  /\ Respond(r, Request("GET personas by category", NoSessionId),
             Response(200, [personas |-> getPersonasByCategory(category)]),
             Locals(Str(<<category>>)))
  /\ UNCHANGED <<chatSessions, messages, appended>>

\* GET /api/personas/search: every persona for no query, else those found
SearchPersonas(r, q) ==
  /\ Free(r)
  /\ LET query == IF Truthy(q) THEN q.s ELSE <<>>
         request == Request("GET personas search", NoSessionId)
     IN IF query = <<>>
          THEN Respond(r, request, Response(200, [personas |-> getPersonas]), Locals(q))
          ELSE Respond(r, request,
                       Response(200, [personas |-> searchPersonas(query)]), Locals(q))
  /\ UNCHANGED <<chatSessions, messages, appended>>

\* GET /api/personas/:id
GetPersona(r, rawId) ==
  /\ Free(r)
  /\ LET id == ParseIntStr(rawId)
         request == Request("GET persona", NoSessionId)
     IN IF id.k = "NaN"
          THEN Respond(r, request, Response(400, ErrorBody("Invalid persona ID")),
                       Locals(Str(rawId)))
          ELSE LET persona == getPersonaById(id)
               IN IF ~Truthy(persona)
                    THEN Respond(r, request,
                                 Response(404, ErrorBody("Persona not found")),
                                 Locals(Str(rawId)))
                    ELSE Respond(r, request, Response(200, [persona |-> persona]),
                                 Locals(Str(rawId)))
  /\ UNCHANGED <<chatSessions, messages, appended>>

(***************************************************************************)
(* POST /api/sessions: create or get a chat session.                       *)
(***************************************************************************)
\* personaId after "Validate personaId": a non-empty string is parsed
ParsePersonaId(personaId) ==
  IF Truthy(personaId) /\ IsString(personaId)
    THEN ParseIntStr(personaId.s)
    ELSE personaId

\* sessionData: { sessionId, currentPersonaId: personaId || undefined }
SessionData(sessionId, personaId) ==
  [sessionId |-> sessionId,
   currentPersonaId |-> IF Truthy(personaId) THEN personaId ELSE Undefined]

\* the test without its "personaId &&": a request without personaId would
\* update the persona of the session too
ShouldUpdatePersona_withoutPersonaId(existingSession, personaId) ==
  /\ Truthy(existingSession)
  /\ StrictNotEqual(existingSession.currentPersonaId, personaId)

\* existingSession && personaId && existingSession.currentPersonaId !== personaId
ShouldUpdatePersona(existingSession, personaId) ==
  /\ Truthy(existingSession)
  /\ Truthy(personaId)
  /\ StrictNotEqual(existingSession.currentPersonaId, personaId)

\* no sessionId in the body: a session is created under a fresh nanoid(),
\* an identifier of S that names no session yet
CreateSession(r, S, rawPersonaId) ==
  /\ Free(r)
  /\ \E sessionId \in S \ DOMAIN chatSessions :
       LET personaId == ParsePersonaId(rawPersonaId)
           data == SessionData(sessionId, personaId)
           stored == createChatSession(chatSessions, data)
       IN /\ chatSessions' = stored
          /\ Respond(r, Request("POST sessions", NoSessionId),
                     Response(201, [session |-> stored[sessionId]]), Locals(personaId))
  /\ UNCHANGED <<messages, appended>>

\* a sessionId in the body: the session is looked up; an existing one is
\* returned unless its persona is to be updated
ResumeSession(r, sessionId, rawPersonaId) ==
  /\ Free(r)
  /\ LET personaId == ParsePersonaId(rawPersonaId)
         existingSession == getChatSessionById(chatSessions, sessionId)
         locals == With(Locals(personaId), "personaId", personaId)
         request == Request("POST sessions", sessionId)
     IN IF ShouldUpdatePersona(existingSession, personaId)
          THEN Goto(r, request, "sessions_update", locals)
          ELSE IF Truthy(existingSession)
            THEN Respond(r, request, Response(200, [session |-> existingSession]), locals)
            ELSE Goto(r, request, "sessions_create", locals)
  /\ UNCHANGED <<chatSessions, messages, appended>>

\* the catch block: the response for a thrown error
CreateSessionCatch(error) ==
  IF error.name = "ZodError"
    THEN Response(400, ErrorBody("Invalid session data"))
    ELSE Response(500, ErrorBody("Failed to create or get chat session"))

\* await storage.updateChatSessionPersona(sessionId, personaId); res.json(updatedSession)
ResumeSession_update(r) ==
  /\ pc[r] = "sessions_update"
  /\ LET stored == updateChatSessionPersona(chatSessions, req[r].sessionId, loc[r].personaId)
         updatedSession == getChatSessionById(stored, req[r].sessionId)
     IN /\ chatSessions' = stored
        /\ IF updateChatSessionPersonaFails(chatSessions, req[r].sessionId, loc[r].personaId)
             THEN Respond(r, req[r], CreateSessionCatch(StorageError("NotFoundError")), loc[r])
             ELSE Respond(r, req[r], Response(200, [session |-> updatedSession]), loc[r])
  /\ UNCHANGED <<messages, appended>>

\* await storage.createChatSession(validatedData); res.status(201).json(newSession)
ResumeSession_create(r) ==
  /\ pc[r] = "sessions_create"
  /\ LET data == SessionData(req[r].sessionId, loc[r].personaId)
         stored == createChatSession(chatSessions, data)
     IN /\ chatSessions' = stored
        /\ Respond(r, req[r], Response(201, [session |-> stored[req[r].sessionId]]), loc[r])
  /\ UNCHANGED <<messages, appended>>

(***************************************************************************)
(* PATCH /api/sessions/:sessionId/persona: change the persona.             *)
(***************************************************************************)
\* !personaId || isNaN(parseInt(personaId.toString()))
PersonaIdInvalid(personaId) ==
  \/ ~Truthy(personaId)
  \/ ParseInt(personaId).k = "NaN"

\* the system message with the id of the persona in place of its name
SystemMessageData_idForName(sessionId, persona, parsedPersonaId) ==
  [sessionId |-> sessionId,
   role |-> "system",
   content |-> <<"You are now chatting with ">> \o NatToString(persona.id) \o <<".">>,
   personaId |-> parsedPersonaId]

\* the system message about the persona change
SystemMessageData(sessionId, persona, parsedPersonaId) ==
  [sessionId |-> sessionId,
   role |-> "system",
   content |-> <<"You are now chatting with ">> \o persona.name \o <<".">>,
   personaId |-> parsedPersonaId]

\* the catch block: the response for a thrown error
ChangePersonaCatch == Response(500, ErrorBody("Failed to change persona"))

\* the handler without its probe of the persona
ChangePersona_withoutPersonaProbe(r, sessionId, personaId) ==
  /\ Free(r)
  /\ LET request == Request("PATCH persona", sessionId)
     IN IF PersonaIdInvalid(personaId)
          THEN Respond(r, request, Response(400, ErrorBody("Invalid persona ID")),
                       Locals(personaId))
          ELSE LET parsedPersonaId == ParseInt(personaId)
                   persona == getPersonaById(parsedPersonaId)
                   locals == With(With(Locals(personaId), "parsedPersonaId", parsedPersonaId),
                                  "persona", persona)
               IN Goto(r, request, "persona_getSession", locals)
  /\ UNCHANGED <<chatSessions, messages, appended>>

\* the personaId is validated and the persona looked up
ChangePersona(r, sessionId, personaId) ==
  /\ Free(r)
  /\ LET request == Request("PATCH persona", sessionId)
     IN IF PersonaIdInvalid(personaId)
          THEN Respond(r, request, Response(400, ErrorBody("Invalid persona ID")),
                       Locals(personaId))
          ELSE LET parsedPersonaId == ParseInt(personaId)
                   persona == getPersonaById(parsedPersonaId)
                   locals == With(With(Locals(personaId), "parsedPersonaId", parsedPersonaId),
                                  "persona", persona)
               IN IF ~Truthy(persona)
                    THEN Respond(r, request,
                                 Response(404, ErrorBody("Persona not found")), locals)
                    ELSE Goto(r, request, "persona_getSession", locals)
  /\ UNCHANGED <<chatSessions, messages, appended>>

\* the handler going on to the update without looking at the session it got
ChangePersona_getSession_unchecked(r) ==
  /\ pc[r] = "persona_getSession"
  /\ Goto(r, req[r], "persona_update", loc[r])
  /\ UNCHANGED <<chatSessions, messages, appended>>

\* await storage.getChatSessionById(sessionId)
ChangePersona_getSession(r) ==
  /\ pc[r] = "persona_getSession"
  /\ LET session == getChatSessionById(chatSessions, req[r].sessionId)
     IN IF ~Truthy(session)
          THEN Respond(r, req[r], Response(404, ErrorBody("Chat session not found")), loc[r])
          ELSE Goto(r, req[r], "persona_update", loc[r])
  /\ UNCHANGED <<chatSessions, messages, appended>>

\* await storage.updateChatSessionPersona(sessionId, parsedPersonaId)
ChangePersona_update(r) ==
  /\ pc[r] = "persona_update"
  /\ LET stored == updateChatSessionPersona(chatSessions, req[r].sessionId,
                                            loc[r].parsedPersonaId)
         updatedSession == getChatSessionById(stored, req[r].sessionId)
     IN /\ chatSessions' = stored
        /\ IF updateChatSessionPersonaFails(chatSessions, req[r].sessionId,
                                            loc[r].parsedPersonaId)
             THEN Respond(r, req[r], ChangePersonaCatch, loc[r])
             ELSE Goto(r, req[r], "persona_createMessage",
                       With(loc[r], "updatedSession", updatedSession))
  /\ UNCHANGED <<messages, appended>>

\* await storage.createMessage({...system message}); res.json(updatedSession)
ChangePersona_createMessage(r) ==
  /\ pc[r] = "persona_createMessage"
  /\ LET data == SystemMessageData(req[r].sessionId, loc[r].persona, loc[r].parsedPersonaId)
         m == newMessage(messages, data)
     IN /\ messages' = createMessage(messages, data)
        /\ appended' = Recorded(m)
        /\ Respond(r, req[r], Response(200, [session |-> loc[r].updatedSession]),
                   With(loc[r], "created", loc[r].created \o <<m.id>>))
  /\ UNCHANGED <<chatSessions>>

(***************************************************************************)
(* GET /api/sessions/:sessionId/messages: the messages of a session.       *)
(***************************************************************************)
\* await storage.getChatSessionById(sessionId)
ListMessages(r, sessionId) ==
  /\ Free(r)
  /\ LET session == getChatSessionById(chatSessions, sessionId)
         request == Request("GET messages", sessionId)
     IN IF ~Truthy(session)
          THEN Respond(r, request,
                       Response(404, ErrorBody("Chat session not found")), NoLocals)
          ELSE Goto(r, request, "list_getMessages", NoLocals)
  /\ UNCHANGED <<chatSessions, messages, appended>>

\* the handler answering with the messages of every session
ListMessages_getMessages_everySession(r) ==
  /\ pc[r] = "list_getMessages"
  /\ Respond(r, req[r], Response(200, [messages |-> messages]), loc[r])
  /\ UNCHANGED <<chatSessions, messages, appended>>

\* await storage.getMessagesBySessionId(sessionId); res.json(messages)
ListMessages_getMessages(r) ==
  /\ pc[r] = "list_getMessages"
  /\ Respond(r, req[r], Response(200,
       [messages |-> getMessagesBySessionId(messages, req[r].sessionId)]), loc[r])
  /\ UNCHANGED <<chatSessions, messages, appended>>

(***************************************************************************)
(* POST /api/sessions/:sessionId/messages: send a message, get a response. *)
(***************************************************************************)
\* the test without its trim(): white space would pass as content
ContentInvalid_withoutTrim(content) ==
  \/ ~Truthy(content)
  \/ ~IsString(content)

\* !content || typeof content !== "string" || content.trim() === ""
ContentInvalid(content) ==
  \/ ~Truthy(content)
  \/ ~IsString(content)
  \/ Trim(content.s) = <<>>

\* the test left out: a session without persona would go on to the lookup
NoPersonaSelected_unchecked(session) == FALSE

\* !session.currentPersonaId
NoPersonaSelected(session) == ~Truthy(session.currentPersonaId)

\* userMessageData
UserMessageData(sessionId, content, session) ==
  [sessionId |-> sessionId, role |-> "user", content |-> content.s,
   personaId |-> session.currentPersonaId]

\* assistantMessageData with the role of userMessageData
AssistantMessageData_userRole(sessionId, aiResponse, session) ==
  [sessionId |-> sessionId, role |-> "user", content |-> aiResponse.content,
   personaId |-> session.currentPersonaId]

\* assistantMessageData
AssistantMessageData(sessionId, aiResponse, session) ==
  [sessionId |-> sessionId, role |-> "assistant", content |-> aiResponse.content,
   personaId |-> session.currentPersonaId]

\* allMessages.filter(msg => msg.role !== "system").map(msg => ({role, content}))
ConversationHistory(allMessages) ==
  LET kept == SelectSeq(allMessages, LAMBDA msg : msg.role # "system")
  IN [i \in 1..Len(kept) |-> [role |-> kept[i].role, content |-> kept[i].content]]

\* history.slice(0, -1): all but the last element
SliceButLast(history) == SubSeq(history, 1, Len(history) - 1)

\* the catch block without its branch for the errors of the generator
SendMessageCatch_withoutGeneratorBranch(error) ==
  IF error.name = "ZodError"
    THEN Response(400, ErrorBody("Invalid message data"))
    ELSE Response(500, ErrorBody("Failed to process message"))

\* the catch block: the response for a thrown error
SendMessageCatch(error) ==
  IF error.name = "ZodError"
    THEN Response(400, ErrorBody("Invalid message data"))
    ELSE IF error.message = "Failed to generate response from OpenAI API"
      THEN Response(503,
             ErrorBody("Unable to generate response from AI service. Please try again later."))
      ELSE Response(500, ErrorBody("Failed to process message"))

\* the content is validated, the session looked up and its persona checked
SendMessage(r, sessionId, content) ==
  /\ Free(r)
  /\ LET request == Request("POST messages", sessionId)
     IN IF ContentInvalid(content)
          THEN Respond(r, request,
                       Response(400, ErrorBody("Message content is required")),
                       Locals(content))
          ELSE LET session == getChatSessionById(chatSessions, sessionId)
                   locals == With(With(Locals(content), "content", content),
                                  "session", session)
               IN IF ~Truthy(session)
                    THEN Respond(r, request,
                                 Response(404, ErrorBody("Chat session not found")), locals)
                    ELSE IF NoPersonaSelected(session)
                      THEN Respond(r, request,
                             Response(400,
                               ErrorBody("No persona selected for this chat session")),
                             locals)
                      ELSE Goto(r, request, "send_getPersona", locals)
  /\ UNCHANGED <<chatSessions, messages, appended>>

\* the handler going on to the user message without looking at the persona
SendMessage_getPersona_unchecked(r) ==
  /\ pc[r] = "send_getPersona"
  /\ LET persona == getPersonaById(loc[r].session.currentPersonaId)
         locals == With(loc[r], "persona", persona)
     IN Goto(r, req[r], "send_createUser", locals)
  /\ UNCHANGED <<chatSessions, messages, appended>>

\* await storage.getPersonaById(session.currentPersonaId)
SendMessage_getPersona(r) ==
  /\ pc[r] = "send_getPersona"
  /\ LET persona == getPersonaById(loc[r].session.currentPersonaId)
         locals == With(loc[r], "persona", persona)
     IN IF ~Truthy(persona)
          THEN Respond(r, req[r], Response(404, ErrorBody("Persona not found")), locals)
          ELSE Goto(r, req[r], "send_createUser", locals)
  /\ UNCHANGED <<chatSessions, messages, appended>>

\* await storage.createMessage(validatedUserMessage)
SendMessage_createUser(r) ==
  /\ pc[r] = "send_createUser"
  /\ LET data == UserMessageData(req[r].sessionId, loc[r].content, loc[r].session)
         m == newMessage(messages, data)
     IN /\ messages' = createMessage(messages, data)
        /\ appended' = Recorded(m)
        /\ Goto(r, req[r], "send_getMessages",
                With(With(loc[r], "savedUserMessage", m),
                     "created", loc[r].created \o <<m.id>>))
  /\ UNCHANGED <<chatSessions>>

\* await storage.getMessagesBySessionId(sessionId), and the history made of it
SendMessage_getMessages(r) ==
  /\ pc[r] = "send_getMessages"
  /\ LET allMessages == getMessagesBySessionId(messages, req[r].sessionId)
         conversationHistory == ConversationHistory(allMessages)
     IN Goto(r, req[r], "send_generate",
             With(loc[r], "history", SliceButLast(conversationHistory)))
  /\ UNCHANGED <<chatSessions, messages, appended>>

\* the handler ending without a response when the generator throws
SendMessage_generate_silentCatch(r) ==
  /\ pc[r] = "send_generate"
  /\ \E outcome \in GeneratorOutcomes :
       IF outcome.ok
         THEN Goto(r, req[r], "send_createAssistant",
                   With(With(loc[r], "generated", "answered"),
                        "aiResponse", [content |-> outcome.content]))
         ELSE /\ pc' = [pc EXCEPT ![r] = "idle"]
              /\ req' = [req EXCEPT ![r] = NoRequest]
              /\ loc' = [loc EXCEPT ![r] = NoLocals]
              /\ sent' = NoOutput
  /\ UNCHANGED <<chatSessions, messages, appended>>

\* await generatePersonaResponse(persona, history, content): it answers or throws
SendMessage_generate(r) ==
  /\ pc[r] = "send_generate"
  /\ \E outcome \in GeneratorOutcomes :
       IF outcome.ok
         THEN Goto(r, req[r], "send_createAssistant",
                   With(With(loc[r], "generated", "answered"),
                        "aiResponse", [content |-> outcome.content]))
         ELSE Respond(r, req[r], SendMessageCatch(outcome.error),
                      With(loc[r], "generated", "threw"))
  /\ UNCHANGED <<chatSessions, messages, appended>>

\* await storage.createMessage(validatedAssistantMessage); both messages returned
SendMessage_createAssistant(r) ==
  /\ pc[r] = "send_createAssistant"
  /\ LET data == AssistantMessageData(req[r].sessionId, loc[r].aiResponse, loc[r].session)
         m == newMessage(messages, data)
     IN /\ messages' = createMessage(messages, data)
        /\ appended' = Recorded(m)
        /\ Respond(r, req[r], Response(201,
                     [userMessage |-> loc[r].savedUserMessage, assistantMessage |-> m]),
                   With(loc[r], "created", loc[r].created \o <<m.id>>))
  /\ UNCHANGED <<chatSessions>>

(***************************************************************************)
(* DELETE /api/sessions/:sessionId/messages: clear chat history.           *)
(***************************************************************************)
\* the handler answering 404 for a session without messages
ClearMessages_onlyWithMessages(r, sessionId) ==
  /\ Free(r)
  /\ IF getMessagesBySessionId(messages, sessionId) = <<>>
       THEN Respond(r, Request("DELETE messages", sessionId),
                    Response(404, ErrorBody("No messages")), NoLocals)
       ELSE Respond(r, Request("DELETE messages", sessionId),
                    Response(204, [none |-> TRUE]), NoLocals)
  /\ UNCHANGED <<chatSessions, messages, appended>>

\* the handler taking the persona from the session it clears
ClearMessages_resettingPersona(r, sessionId) ==
  /\ Free(r)
  /\ Respond(r, Request("DELETE messages", sessionId),
             Response(204, [none |-> TRUE]), NoLocals)
  /\ chatSessions' = [s \in DOMAIN chatSessions |->
                        IF s = sessionId
                          THEN Session(s, Undefined)
                          ELSE chatSessions[s]]
  /\ UNCHANGED <<messages, appended>>

\* res.status(204).send(): the handler makes no storage call
ClearMessages(r, sessionId) ==
  /\ Free(r)
  /\ Respond(r, Request("DELETE messages", sessionId),
             Response(204, [none |-> TRUE]), NoLocals)
  /\ UNCHANGED <<chatSessions, messages, appended>>

(***************************************************************************)
(* The server.                                                             *)
(***************************************************************************)
\* the store as seeded: the persona catalog, no session, no message
Init ==
  /\ chatSessions = [s \in {} |-> Undefined]
  /\ messages = <<>>
  /\ pc = [r \in Reqs |-> "idle"]
  /\ req = [r \in Reqs |-> NoRequest]
  /\ loc = [r \in Reqs |-> NoLocals]
  /\ sent = NoOutput
  /\ appended = [s \in SessionIds |-> <<>>]

\* the requests of the slots R about the sessions S, with a personaId of P
\* or a content of C, while the log holds at most M messages
Requests(M, R, S, P, C) ==
  \E r \in R :
    \/ \E personaId \in P : CreateSession(r, S, personaId)
    \/ \E sessionId \in S, personaId \in P : ResumeSession(r, sessionId, personaId)
    \/ ResumeSession_update(r)
    \/ ResumeSession_create(r)
    \/ Room(M, 1) /\ \E sessionId \in S, personaId \in P :
                       ChangePersona(r, sessionId, personaId)
    \/ ChangePersona_getSession(r)
    \/ ChangePersona_update(r)
    \/ ChangePersona_createMessage(r)
    \/ \E sessionId \in S : ListMessages(r, sessionId)
    \/ ListMessages_getMessages(r)
    \/ Room(M, 2) /\ \E sessionId \in S, content \in C :
                       SendMessage(r, sessionId, content)
    \/ SendMessage_getPersona(r)
    \/ SendMessage_createUser(r)
    \/ SendMessage_getMessages(r)
    \/ SendMessage_generate(r)
    \/ SendMessage_createAssistant(r)
    \/ \E sessionId \in S : ClearMessages(r, sessionId)

\* two requests at a time about one session, with every input
Next == Requests(MaxMsgs, Reqs, {"s1"}, RawPersonaIds, RawContents)

Spec == Init /\ [][Next]_vars

\* one request at a time about two sessions, with every input
NextSessions == Requests(MaxMsgs, {1}, SessionIds, RawPersonaIds, RawContents)

SpecSessions == Init /\ [][NextSessions]_vars

\* two requests at a time about two sessions, with no or one persona and text
NextLogs == Requests(MaxMsgs, Reqs, SessionIds, {Undefined, Num(1)}, {Str(<<"h", "i">>)})

SpecLogs == Init /\ [][NextLogs]_vars

\* two requests at a time about one session, with a persona of the catalog
\* and text, in a log that has room for two send-message handlers
NextSends == Requests(MaxMsgsSends, Reqs, {"s1"}, {Num(1), Num(2)}, {Str(<<"h", "i">>)})

SpecSends == Init /\ [][NextSends]_vars

\* two requests at a time about one session, with no persona, a persona of
\* the catalog or a persona it has not, and with no content or text
NextLive ==
  Requests(MaxMsgs, Reqs, {"s1"}, {Undefined, Num(1), Num(3)},
           {Undefined, Str(<<"h", "i">>)})

\* every storage call and every generator call of a send-message handler
\* returns or fails in the end: a handler that stands at an await goes on
SendCallsReturn ==
  \A r \in Reqs :
    /\ WF_vars(SendMessage_getPersona(r))
    /\ WF_vars(SendMessage_createUser(r))
    /\ WF_vars(SendMessage_getMessages(r))
    /\ WF_vars(SendMessage_generate(r))
    /\ WF_vars(SendMessage_createAssistant(r))

SpecLive == Init /\ [][NextLive]_vars /\ SendCallsReturn

\* the reads of the persona catalog by the slots R
CatalogReads(R) ==
  \E r \in R :
    \/ GetPersonas(r)
    \/ \E category \in RawCategories : GetPersonasByCategory(r, category)
    \/ \E q \in RawQueries : SearchPersonas(r, q)
    \/ \E rawId \in RawIds : GetPersona(r, rawId)

\* one request at a time about two sessions, the reads of the catalog
\* among them
NextReads ==
  \/ Requests(MaxMsgs, {1}, SessionIds, {Undefined, Num(1), Num(2)}, {Str(<<"h", "i">>)})
  \/ CatalogReads({1})

SpecReads == Init /\ [][NextReads]_vars

(***************************************************************************)
(* What the properties below speak of.                                     *)
(***************************************************************************)
\* the last step answered a request of route op
Answered(op) == sent.op = op

\* this step answers a request of route op
Answers(op) == sent'.op = op

\* this step is the first of a handler and answers at once (a slot that
\* answers in its first step is idle before and after)
AnswersAtOnce(op) == Answers(op) /\ pc' = pc

\* the messages of session s, by the history of the createMessage calls
AppendedMessages(s) == [i \in 1..Len(appended[s]) |-> messages[appended[s][i]]]

\* a content that is missing, not a string, empty or white space only
Blank(content) ==
  \/ content.k # "string"
  \/ \A i \in 1..Len(content.s) : content.s[i] = " "

\* the text s holds the name of persona p
NamesPersona(s, p) ==
  \E i \in 1..Len(s) : \E j \in 1..Len(PersonaNames[p]) : s[i] = PersonaNames[p][j]

\* this step is the first of a change-persona handler for session s with
\* personaId p
PatchArrives(s, p) ==
  \/ AnswersAtOnce("PATCH persona") /\ sent'.sessionId = s /\ sent'.input = p
  \/ \E r \in Reqs :
       /\ pc[r] = "idle" /\ pc'[r] = "persona_getSession"
       /\ req'[r].sessionId = s /\ loc'[r].input = p

\* this step is the first of a send-message handler for session s with content c
SendArrives(s, c) ==
  \/ AnswersAtOnce("POST messages") /\ sent'.sessionId = s /\ sent'.input = c
  \/ \E r \in Reqs :
       /\ pc[r] = "idle" /\ pc'[r] = "send_getPersona"
       /\ req'[r].sessionId = s /\ loc'[r].input = c

C2_GeneratorFailureKeepsUserMessage ==
  /\ [](Answered("POST messages") /\ sent.generated = "threw"
          => /\ sent.status = 503
             /\ Len(sent.created) = 1
             /\ sent.created[1] \in 1..Len(messages)
             /\ messages[sent.created[1]].role = "user"
             /\ messages[sent.created[1]].sessionId = sent.sessionId
             /\ messages[sent.created[1]].content = sent.input.s)
  /\ [][Answers("POST messages") /\ sent'.generated = "threw"
          => messages' = messages]_vars

\* a send-message request was answered 503 with its user message in the log
C2_Witness ==
  /\ Answered("POST messages")
  /\ sent.generated = "threw"
  /\ sent.status = 503
  /\ Len(getMessagesBySessionId(messages, sent.sessionId)) = 1
  /\ messages[sent.created[1]].role = "user"

(***************************************************************************)
(* C3. A send-message request with a content that is no text.              *)
(***************************************************************************)
\* C3: a send-message request whose content is missing, not a string, empty
\* or white space only is answered 400 "Message content is required" by the
\* handler's first step, whatever the addressed session is, and that step
\* changes neither the message log nor any session.
C3_BlankContentIsRejected ==
  [][\A s \in SessionIds, c \in RawContents :
       SendArrives(s, c) /\ Blank(c)
         => /\ AnswersAtOnce("POST messages")
            /\ sent'.status = 400
            /\ sent'.body = ErrorBody("Message content is required")
            /\ sent'.created = <<>>
            /\ messages' = messages
            /\ chatSessions' = chatSessions]_vars

\* a white-space content was rejected for a session with a persona selected
C3_Witness ==
  /\ Answered("POST messages")
  /\ sent.status = 400
  /\ sent.input = Str(<<" ", " ">>)
  /\ sent.sessionId \in DOMAIN chatSessions
  /\ chatSessions[sent.sessionId].currentPersonaId = Num(1)

(***************************************************************************)
(* C4. A successful change of persona.                                     *)
(***************************************************************************)
\* C4: a change-persona request for persona B that succeeds (200) has set the
\* session's persona to B in its update step, and its last step appends
\* exactly one message at the end of the log: role system, content naming B,
\* personaId B, for the session; it is the one message the handler created,
\* and the session of the answer has persona B.
C4_PersonaChangeAppendsSystemMessage ==
  /\ [][\A r \in Reqs :
          pc[r] = "persona_update" /\ pc'[r] = "persona_createMessage"
            => /\ req[r].sessionId \in DOMAIN chatSessions'
               /\ chatSessions'[req[r].sessionId].currentPersonaId = ParseInt(loc[r].input)
               /\ messages' = messages]_vars
  /\ [][Answers("PATCH persona") /\ sent'.status = 200
          => LET B == ParseInt(sent'.input)
                 m == messages'[Len(messages')]
             IN /\ Len(messages') = Len(messages) + 1
                /\ SubSeq(messages', 1, Len(messages)) = messages
                /\ m.role = "system"
                /\ m.sessionId = sent'.sessionId
                /\ m.personaId = B
                /\ B.n \in PersonaIds
                /\ NamesPersona(m.content, B.n)
                /\ \A p \in PersonaIds \ {B.n} : ~NamesPersona(m.content, p)
                /\ sent'.created = <<m.id>>
                /\ m.id = Len(messages')
                /\ sent'.body.session.sessionId = sent'.sessionId
                /\ sent'.body.session.currentPersonaId = B]_vars

\* a session that had persona 1 and a message of it was changed to persona 2
C4_Witness ==
  /\ Answered("PATCH persona")
  /\ sent.status = 200
  /\ ParseInt(sent.input) = Num(2)
  /\ Len(messages) >= 2
  /\ messages[1].personaId = Num(1)
  /\ messages[Len(messages)].role = "system"
  /\ messages[Len(messages)].personaId = Num(2)
  /\ chatSessions[sent.sessionId].currentPersonaId = Num(2)

(***************************************************************************)
(* C5. Persona changes and system messages.                                *)
(***************************************************************************)
\* C5, as claimed: every operation that changes the selected persona of an
\* existing session appends a system message recording the change to the
\* session's log, so that persona changes and system messages go one to one.
\* A step that changes the persona of a stored session and ends its operation
\* must belong to a handler that created a system message for the session.
C5_PersonaChangeRecorded ==
  [][\A s \in DOMAIN chatSessions :
       (/\ chatSessions'[s].currentPersonaId # chatSessions[s].currentPersonaId
        /\ sent'.op # "none")
         => \E i \in 1..Len(sent'.created) :
              /\ messages'[sent'.created[i]].role = "system"
              /\ messages'[sent'.created[i]].sessionId = s]_vars

C7_NoPersonaSelectedIsRejected ==
  [][\A s \in DOMAIN chatSessions, c \in RawContents :
       (/\ SendArrives(s, c)
        /\ ~Blank(c)
        /\ chatSessions[s].currentPersonaId = Undefined)
         => /\ AnswersAtOnce("POST messages")
            /\ sent'.status = 400
            /\ sent'.body = ErrorBody("No persona selected for this chat session")
            /\ sent'.generated = "no"
            /\ sent'.created = <<>>
            /\ messages' = messages]_vars

\* a text was sent to a stored session with no persona and answered 400
C7_Witness ==
  /\ Answered("POST messages")
  /\ sent.status = 400
  /\ sent.input = Str(<<"h", "i">>)
  /\ sent.sessionId \in DOMAIN chatSessions
  /\ chatSessions[sent.sessionId].currentPersonaId = Undefined
  /\ sent.body = ErrorBody("No persona selected for this chat session")

(***************************************************************************)
(* C8. A send-message request that succeeds.                               *)
(***************************************************************************)
\* C8: a send-message request whose generator call returns is answered 201;
\* its handler has created exactly two messages of the session, first a user
\* message with the content of the request, later an assistant message with a
\* text of the generator, both in the log, and the answer holds exactly these
\* two; no other send-message request is answered 201.
C8_SuccessAppendsUserThenAssistant ==
  /\ Answered("POST messages") /\ sent.generated = "answered" => sent.status = 201
  /\ Answered("POST messages") /\ sent.status = 201
       => /\ sent.generated = "answered"
          /\ Len(sent.created) = 2
          /\ sent.created[1] < sent.created[2]
          /\ sent.created[2] <= Len(messages)
          /\ LET u == messages[sent.created[1]]
                 a == messages[sent.created[2]]
             IN /\ u.role = "user"
                /\ u.content = sent.input.s
                /\ u.sessionId = sent.sessionId
                /\ a.role = "assistant"
                /\ a.content \in GeneratorTexts
                /\ a.sessionId = sent.sessionId
                /\ DOMAIN sent.body = {"userMessage", "assistantMessage"}
                /\ sent.body.userMessage = u
                /\ sent.body.assistantMessage = a

\* a send-message request was answered 201 with a system message of another
\* request between its two messages
C8_Witness ==
  /\ Answered("POST messages")
  /\ sent.status = 201
  /\ sent.created = <<1, 3>>
  /\ messages[2].role = "system"

C10_ClearRemovesMessages ==
  [][Answers("DELETE messages") /\ sent'.status = 204
       => getMessagesBySessionId(messages', sent'.sessionId) = <<>>]_vars

(***************************************************************************)
(* C11. clear-messages is total and idempotent.                            *)
(***************************************************************************)
\* C11: a clear-messages request is answered 204 with no error body whatever
\* the session holds, a session with no message included, and a clear-messages
\* request that follows one for the same session at once leaves the state and
\* the answer exactly as the first left them.
C11_ClearIsTotalAndIdempotent ==
  [][Answers("DELETE messages")
       => /\ sent'.status = 204
          /\ sent'.body = [none |-> TRUE]
          /\ (Answered("DELETE messages") /\ sent.sessionId = sent'.sessionId)
               => vars' = vars]_vars

\* a stored session with no message was cleared with success
C11_Witness ==
  /\ Answered("DELETE messages")
  /\ sent.status = 204
  /\ sent.sessionId \in DOMAIN chatSessions
  /\ getMessagesBySessionId(messages, sent.sessionId) = <<>>

(***************************************************************************)
(* C12. The persona of a stored session is a persona of the catalog.       *)
(***************************************************************************)
\* C12, as claimed: in every reachable state the persona reference of every
\* stored session is absent or the id of a persona of the catalog.
C12_SessionPersonaExists ==
  \A s \in DOMAIN chatSessions :
    \/ chatSessions[s].currentPersonaId = Undefined
    \/ /\ chatSessions[s].currentPersonaId.k = "number"
       /\ chatSessions[s].currentPersonaId.n \in PersonaIds

(***************************************************************************)
(* C13. The session of a message is a stored session.                      *)
(***************************************************************************)
\* C13: in every reachable state every message of the log names a session of
\* the store, and every handler that is past its session probe, on its way to
\* a write, has found its session in the store.
C13_MessageSessionExists ==
  /\ \A i \in 1..Len(messages) : messages[i].sessionId \in DOMAIN chatSessions
  /\ \A r \in Reqs :
       pc[r] \in {"persona_update", "persona_createMessage", "send_getPersona",
                  "send_createUser", "send_getMessages", "send_generate",
                  "send_createAssistant"}
         => req[r].sessionId \in DOMAIN chatSessions

\* both sessions hold a message while a handler is about to append another
C13_Witness ==
  /\ \A s \in SessionIds : getMessagesBySessionId(messages, s) # <<>>
  /\ \E r \in Reqs : pc[r] \in {"persona_createMessage", "send_createAssistant"}

(***************************************************************************)
(* C14. A change of persona for a missing persona or a missing session.    *)
(***************************************************************************)
\* C14: a change-persona request whose personaId is the id of no persona is
\* answered 404 "Persona not found" by its first step; one whose session is
\* not in the store when the handler looks it up is answered 404 "Chat
\* session not found"; both probes come before any write: no step of the
\* handler up to them, and no step answering 404, changes the session store
\* or the message log, and the handler has created no message.
C14_MissingPersonaOrSessionIs404 ==
  /\ [][\A s \in SessionIds, p \in RawPersonaIds :
          (/\ PatchArrives(s, p)
           /\ p.k = "number"
           /\ p.n \notin PersonaIds \cup {0})
            => /\ AnswersAtOnce("PATCH persona")
               /\ sent'.status = 404
               /\ sent'.body = ErrorBody("Persona not found")]_vars
  /\ [][\A r \in Reqs :
          (/\ pc[r] = "persona_getSession"
           /\ pc'[r] # pc[r]
           /\ req[r].sessionId \notin DOMAIN chatSessions)
            => /\ Answers("PATCH persona")
               /\ sent'.sessionId = req[r].sessionId
               /\ sent'.status = 404
               /\ sent'.body = ErrorBody("Chat session not found")]_vars
  /\ [][(\/ Answers("PATCH persona") /\ sent'.status = 404
         \/ \E s \in SessionIds, p \in RawPersonaIds : PatchArrives(s, p)
         \/ \E r \in Reqs : pc[r] = "persona_getSession" /\ pc'[r] # pc[r])
          => /\ chatSessions' = chatSessions
             /\ messages' = messages
             /\ Answers("PATCH persona") => sent'.created = <<>>]_vars

\* a change to a persona the catalog has not was answered 404 for a stored
\* session that holds a message
C14_Witness ==
  /\ Answered("PATCH persona")
  /\ sent.status = 404
  /\ sent.body = ErrorBody("Persona not found")
  /\ sent.input = Num(3)
  /\ sent.sessionId \in DOMAIN chatSessions
  /\ Len(messages) > 0

\* a change of persona was answered 404 for a session that is not stored
C14_WitnessSession ==
  /\ Answered("PATCH persona")
  /\ sent.status = 404
  /\ sent.body = ErrorBody("Chat session not found")
  /\ sent.sessionId \notin DOMAIN chatSessions

(***************************************************************************)
(* C15. The stages of a send-message operation.                            *)
(***************************************************************************)
\* the awaits of the send-message handler
SendLabels ==
  {"send_getPersona", "send_createUser", "send_getMessages", "send_generate",
   "send_createAssistant"}

\* the moves of a send-message handler from await to await: forward by one
\* stage, or to the end from a stage that may fail
SendOrder ==
  {<<"idle", "send_getPersona">>,
   <<"send_getPersona", "send_createUser">>, <<"send_getPersona", "idle">>,
   <<"send_createUser", "send_getMessages">>,
   <<"send_getMessages", "send_generate">>,
   <<"send_generate", "send_createAssistant">>, <<"send_generate", "idle">>,
   <<"send_createAssistant", "idle">>}

\* C15: a send-message handler goes through its stages in the order
\* validate-input, resolve-session, resolve-persona, persist-user-message,
\* invoke-generator, persist-assistant-message, respond. A content that is no
\* text is answered 400 even when the session is not stored, and a text for a
\* session that is not stored is answered 404; a persona that is not in the
\* catalog is answered 404 at resolve-persona; the generator stage ends with
\* 503 or goes on, and the last stage answers 201. The stage that fails
\* answers and ends the handler; an answer given before persist-user-message
\* comes from a handler that has appended nothing, and only the two persist
\* stages change the log, by one message each.
C15_SendStagesInOrder ==
  /\ [][\A r \in Reqs :
          (pc'[r] # pc[r] /\ (pc[r] \in SendLabels \/ pc'[r] \in SendLabels))
            => /\ <<pc[r], pc'[r]>> \in SendOrder
               /\ pc'[r] = "idle" <=> Answers("POST messages")
               /\ Len(messages') = Len(messages) +
                    (IF pc[r] \in {"send_createUser", "send_createAssistant"} THEN 1 ELSE 0)
               /\ pc[r] = "send_createUser"
                    => messages'[Len(messages')].role = "user"
               /\ pc[r] = "send_createAssistant"
                    => messages'[Len(messages')].role = "assistant" /\ sent'.status = 201
               /\ (pc[r] = "send_getPersona" /\ pc'[r] = "idle")
                    => /\ sent'.status = 404
                       /\ sent'.body = ErrorBody("Persona not found")
                       /\ sent'.created = <<>>
                       /\ sent'.generated = "no"
               /\ (pc[r] = "send_getPersona"
                      /\ loc[r].session.currentPersonaId.n \notin PersonaIds)
                    => pc'[r] = "idle"
               /\ (pc[r] = "send_generate" /\ pc'[r] = "idle")
                    => sent'.status = 503 /\ Len(sent'.created) = 1]_vars
  /\ [][\A s \in SessionIds, c \in RawContents :
          SendArrives(s, c)
            => /\ Blank(c)
                    => /\ AnswersAtOnce("POST messages")
                       /\ sent'.status = 400
                       /\ sent'.body = ErrorBody("Message content is required")
               /\ (~Blank(c) /\ s \notin DOMAIN chatSessions)
                    => /\ AnswersAtOnce("POST messages")
                       /\ sent'.status = 404
                       /\ sent'.body = ErrorBody("Chat session not found")
               /\ AnswersAtOnce("POST messages")
                    => /\ sent'.created = <<>>
                       /\ sent'.generated = "no"
                       /\ messages' = messages]_vars

\* a text for a session whose persona is not in the catalog got as far as
\* resolve-persona and was answered 404 there, with nothing appended
C15_Witness ==
  /\ Answered("POST messages")
  /\ sent.status = 404
  /\ sent.body = ErrorBody("Persona not found")
  /\ sent.sessionId \in DOMAIN chatSessions
  /\ chatSessions[sent.sessionId].currentPersonaId = Num(3)
  /\ messages = <<>>

(***************************************************************************)
(* C16. The history a send-message handler passes to the generator.        *)
(***************************************************************************)
\* the (role, content) pairs of the messages of the session of slot r that are
\* no system messages and precede the user message its handler created
PriorConversation(r) ==
  LET own == loc[r].savedUserMessage.id
      prior == SelectSeq(SubSeq(messages, 1, own - 1),
                         LAMBDA m : m.sessionId = req[r].sessionId /\ m.role # "system")
  IN [i \in 1..Len(prior) |-> [role |-> prior[i].role, content |-> prior[i].content]]

C17_MessagePersonaIsSelectedPersona ==
  [][Len(messages') > Len(messages)
       => LET m == messages'[Len(messages')]
          IN m.role \in {"user", "assistant"}
               => m.personaId = chatSessions[m.sessionId].currentPersonaId]_vars

Acts(op, s) ==
  \/ sent'.op = op /\ sent'.sessionId = s
  \/ /\ sent'.op = "none"
     /\ \E r \in Reqs : pc'[r] # pc[r] /\ req'[r].op = op /\ req'[r].sessionId = s

\* the routes that select no persona
ReadingOps ==
  {"POST messages", "GET messages", "DELETE messages", "GET personas",
   "GET personas by category", "GET personas search", "GET persona"}

\* the routes that select a persona
SelectingOps == {"POST sessions", "PATCH persona"}

\* C19: no step of a send-message, list-messages or clear-messages handler
\* or of a read of the persona catalog changes a session record; a session
\* record changes only in a step of a create-or-resume or change-persona
\* handler for that session; and a step of a handler for session s changes
\* neither the record nor the messages of another session.
C19_RequestsLeaveOtherStateAlone ==
  [][/\ \A op \in ReadingOps :
          (\E s \in SessionIds \cup {NoSessionId} : Acts(op, s))
            => chatSessions' = chatSessions
     /\ \A s \in DOMAIN chatSessions :
          chatSessions'[s] # chatSessions[s]
            => \E op \in SelectingOps : Acts(op, s)
     /\ \A s \in SessionIds :
          (\E op \in ReadingOps \cup SelectingOps : Acts(op, s))
            => \A t \in SessionIds \ {s} :
                 /\ t \in DOMAIN chatSessions' <=> t \in DOMAIN chatSessions
                 /\ t \in DOMAIN chatSessions => chatSessions'[t] = chatSessions[t]
                 /\ getMessagesBySessionId(messages', t)
                      = getMessagesBySessionId(messages, t)]_vars

\* a send-message request for one session was answered 201 while the other
\* session has a persona selected and holds a message
C19_Witness ==
  /\ Answered("POST messages")
  /\ sent.status = 201
  /\ \E t \in DOMAIN chatSessions \ {sent.sessionId} :
       /\ chatSessions[t].currentPersonaId # chatSessions[sent.sessionId].currentPersonaId
       /\ chatSessions[t].currentPersonaId # Undefined
       /\ getMessagesBySessionId(messages, t) # <<>>

\* a search of the catalog in another case found one persona while a session
\* with a persona is stored
C19_WitnessCatalog ==
  /\ Answered("GET personas search")
  /\ sent.input = Str(<<"Of", "egypt">>)
  /\ sent.body = [personas |-> <<Persona(2)>>]
  /\ \E s \in DOMAIN chatSessions : chatSessions[s].currentPersonaId = Num(1)

====
